---- MODULE Spec2Model ----
(***************************************************************************)
(* The vaccine cold chain dashboard of src/app.py as a state machine.      *)
(*                                                                         *)
(* The script is run top to bottom once per user interaction, one run per  *)
(* browser session at a time.  The state is the CSV file on disk, the      *)
(* process-wide cache of load_data (st.cache_data), each session's         *)
(* st.session_state, and each session's position in the script together   *)
(* with the values the current run has computed and the elements it has    *)
(* put on the page so far.                                                 *)
(***************************************************************************)
EXTENDS Integers, Sequences, FiniteSets, TLC

VARIABLES
    file,           \* Vaccine_Cold_Chain_Dashboard_Data.csv as it is on disk
    cache,          \* st.cache_data's entry for load_data(): << >> or <<table>>
    sessions,       \* the browser sessions connected to the process
    session_state,  \* per session: st.session_state, a record over its keys
    pc,             \* per session: the statement of the script it is at
    run             \* per session: the current (or last) run's locals and page

vars == <<file, cache, sessions, session_state, pc, run>>

-----------------------------------------------------------------------------
(* Bounds of the model *)

\* the longest source file (in rows) that SpecData loads
MaxRows == 21

(* Constants of the program *)

\* df.iloc[::10, :]
Step == 10
\* the fixed storage limit the KPI cards compare against
Limit == -60

AllLocations == "All Locations"

Columns == {"DateTime", "Location_Name", "Latitude", "Longitude", "Pod20", "Status"}

Sessions == {"s1", "s2"}

-----------------------------------------------------------------------------
(* The input: CSV files *)

Stages == {"Factory", "Airport"}
Temps == {-70, -60, -50}
Statuses == {"OK", "WARNING"}

\* what one logger line records, besides its time and place
Readings == [loc : Stages, temp : Temps, status : Statuses]

\* the reading of the lines the downsampling is to drop
Filler == [loc |-> "Depot", temp |-> -70, status |-> "OK"]

LatitudeOf(loc) == CASE loc = "Factory" -> 42 [] loc = "Airport" -> 40 [] OTHER -> 36
LongitudeOf(loc) == CASE loc = "Factory" -> -85 [] loc = "Airport" -> -74 [] OTHER -> -84

\* The DateTime cell of line i as CSV text: the minute it names and the
\* format it is written in ("HH:MM" and "HH:MM:SS" name the same instants;
\* "bad" is text that names no instant).
CsvTime(i, fmt) == [fmt |-> fmt, minute |-> i]

CsvRow(i, r, fmt) ==
    [DateTime      |-> CsvTime(i, fmt),
     Location_Name |-> r.loc,
     Latitude      |-> LatitudeOf(r.loc),
     Longitude     |-> LongitudeOf(r.loc),
     Pod20         |-> r.temp,
     Status        |-> r.status]

Project(row, cols) == [c \in cols |-> row[c]]

CeilDiv(n, d) == (n + d - 1) \div d

\* An n-line file with the columns cols: line 10k (from 0) carries kept[k+1],
\* every other line the filler; the lines alternate between the two formats.
MkFile(cols, n, kept, badAt) ==
    [exists |-> TRUE,
     cols   |-> cols,
     rows   |-> [i \in 1..n |->
                   Project(CsvRow(i - 1,
                                  IF (i - 1) % Step = 0
                                     THEN kept[((i - 1) \div Step) + 1]
                                     ELSE Filler,
                                  IF i = badAt THEN "bad"
                                  ELSE IF i % 2 = 0 THEN "HH:MM" ELSE "HH:MM:SS"),
                           cols)]]

MissingFile == [exists |-> FALSE, cols |-> {}, rows |-> << >>]

\* every well-formed file of at most MaxRows lines
DataFiles ==
    UNION { { MkFile(Columns, n, kept, 0) : kept \in [1..CeilDiv(n, Step) -> Readings] }
            : n \in 0..MaxRows }

Warm == [loc |-> "Factory", temp |-> -50, status |-> "WARNING"]
Cold == [loc |-> "Airport", temp |-> -70, status |-> "OK"]

\* the versions of the file that follow one another on disk in Spec
SharedFiles ==
    { MissingFile,
      MkFile(Columns, 0, << >>, 0),
      MkFile(Columns, 1, <<Cold>>, 0),
      MkFile(Columns, 11, <<Warm, Cold>>, 0),
      MkFile(Columns \ {"Pod20"}, 11, <<Warm, Cold>>, 0) }

\* the files of SpecOne: absent, empty, well-formed, with an unreadable
\* timestamp, and with one required column left out
Files ==
    { MissingFile,
      MkFile(Columns, 0, << >>, 0),
      MkFile(Columns, 11, <<Warm, Cold>>, 0),
      MkFile(Columns, 21, <<Warm, Cold, Warm>>, 0),
      MkFile(Columns, 11, <<Warm, Cold>>, 5),
      MkFile(Columns \ {"Pod20"}, 0, << >>, 0) }
    \cup { MkFile(Columns \ {c}, 11, <<Warm, Cold>>, 0) : c \in Columns }

-----------------------------------------------------------------------------
(* 2. LOAD DATA *)

\* pd.read_csv: the file's columns and lines as they are written
read_csv(f) == [cols |-> f.cols, rows |-> f.rows]

\* pd.to_datetime on one cell: the instant the text names
to_datetime(text) == [ts |-> text.minute]

Parseable(text) == text.fmt # "bad"

\* df.iloc[::10, :] from position start (1-based here)
RECURSIVE SliceFrom(_, _)
SliceFrom(rows, start) ==
    IF start > Len(rows) THEN << >>
    ELSE <<rows[start]>> \o SliceFrom(rows, start + Step)

\* the slice begun one step late, as if positions counted from 1
iloc_late(rows) == SliceFrom(rows, Step)

iloc_step(rows) == SliceFrom(rows, 1)

\* whether load_data() raises on the file
load_raises(f) ==
    \/ ~f.exists
    \/ "DateTime" \notin f.cols
    \/ \E i \in 1..Len(f.rows) : ~Parseable(f.rows[i].DateTime)

\* the table load_data() returns on a file it does not raise on
load_data(f) ==
    LET csv == read_csv(f)
        parsed == [i \in 1..Len(csv.rows) |->
                     [csv.rows[i] EXCEPT !.DateTime = to_datetime(@)]]
    IN  [cols |-> csv.cols, rows |-> iloc_step(parsed)]

-----------------------------------------------------------------------------
(* 3. HELPER FUNCTION (KPI CARD) *)

custom_metric_card(label, delta_text, status) ==
    [label |-> label, delta_text |-> delta_text, status |-> status,
     color |-> IF status = "safe" THEN "#00CC96" ELSE "#EF553B",
     arrow |-> IF status = "safe" THEN "down" ELSE "up"]

-----------------------------------------------------------------------------
(* 4. DASHBOARD LAYOUT: the values a run computes *)

RECURSIVE Unique(_)
\* Series.unique(): the distinct values in first-seen order
Unique(s) ==
    IF s = << >> THEN << >>
    ELSE LET front == Unique(SubSeq(s, 1, Len(s) - 1))
             last == s[Len(s)]
         IN  IF \E i \in 1..Len(front) : front[i] = last THEN front
             ELSE Append(front, last)

location_list(df) ==
    <<AllLocations>> \o Unique([i \in 1..Len(df.rows) |-> df.rows[i].Location_Name])

\* the filter without its test for the sentinel
filter_always(df, selected) ==
    [df EXCEPT !.rows = SelectSeq(df.rows, LAMBDA r : r.Location_Name = selected)]

\* FILTER DATA
filter(df, selected) ==
    IF selected # AllLocations
       THEN [df EXCEPT !.rows = SelectSeq(df.rows, LAMBDA r : r.Location_Name = selected)]
       ELSE df

RECURSIVE SumPod(_)
SumPod(rows) == IF rows = << >> THEN 0 ELSE rows[1].Pod20 + SumPod(Tail(rows))

RECURSIVE MinPod(_)
\* the comparison of the maximum turned round
MinPod(rows) ==
    IF Len(rows) = 1 THEN rows[1].Pod20
    ELSE LET m == MinPod(Tail(rows))
         IN  IF rows[1].Pod20 <= m THEN rows[1].Pod20 ELSE m

RECURSIVE MaxPod(_)
MaxPod(rows) ==
    IF Len(rows) = 1 THEN rows[1].Pod20
    ELSE LET m == MaxPod(Tail(rows))
         IN  IF rows[1].Pod20 >= m THEN rows[1].Pod20 ELSE m

\* a mean is kept exact, as the fraction num/den with den > 0
Whole(n) == [num |-> n, den |-> 1]
mean(rows) == [num |-> SumPod(rows), den |-> Len(rows)]
LeqLimit(q) == q.num <= Limit * q.den

breaches(rows) == Len(SelectSeq(rows, LAMBDA r : r.Status = "WARNING"))

\* C. POPULATE KPIs: the three values
computeKPIs(df_filtered) ==
    IF df_filtered.rows # << >>
       THEN [avg_temp       |-> mean(df_filtered.rows),
             max_temp       |-> Whole(MaxPod(df_filtered.rows)),
             total_breaches |-> breaches(df_filtered.rows)]
       ELSE [avg_temp |-> Whole(0), max_temp |-> Whole(0), total_breaches |-> 0]

kpi1(avg_temp) ==
    IF LeqLimit(avg_temp)
       THEN custom_metric_card("Avg Temperature", "Optimal Range", "safe")
       ELSE custom_metric_card("Avg Temperature", "Too Warm", "danger")

\* the card with the limit itself counted as exceeded
kpi2_strict(max_temp) ==
    IF max_temp.num < Limit * max_temp.den
       THEN custom_metric_card("Max Temperature", "Within Limit (< -60C)", "safe")
       ELSE custom_metric_card("Max Temperature", "Exceeds Limit", "danger")

kpi2(max_temp) ==
    IF LeqLimit(max_temp)
       THEN custom_metric_card("Max Temperature", "Within Limit (< -60C)", "safe")
       ELSE custom_metric_card("Max Temperature", "Exceeds Limit", "danger")

kpi3(total_breaches) ==
    IF total_breaches = 0
       THEN custom_metric_card("Breach Events", "No Incidents", "safe")
       ELSE custom_metric_card("Breach Events", "Alerts Detected", "danger")

-----------------------------------------------------------------------------
(* The script, statement by statement *)

\* no widget was clicked: the run was triggered by something else
NoClick == "(none)"

Sections == {"map", "line", "bar", "table"}

\* a run that has just begun: nothing loaded, nothing on the page
NewRun(widget) ==
    [clicked     |-> widget,     \* the button whose click triggered the run
     fileRead    |-> FALSE,      \* whether this run's load_data() read the file
     df          |-> << >>,      \* df, once load_data() has returned
     i           |-> 0,          \* the button loop's position in location_list
     buttons     |-> << >>,      \* the selector buttons rendered so far
     filtered_by |-> << >>,      \* the selected_location the filter read
     df_filtered |-> << >>,      \* df_filtered, once the filter has run
     kpi         |-> << >>,      \* avg_temp, max_temp, total_breaches
     cards       |-> << >>,      \* the three KPI cards
     sections    |-> [x \in Sections |-> "none"],
     outcome     |-> "running",  \* running | complete | error
     failed_at   |-> "none"]

\* a session that has not run the script yet
BlankPage == [NewRun(NoClick) EXCEPT !.outcome = "none"]

TypeOK ==
    /\ Len(cache) <= 1
    /\ sessions \subseteq Sessions
    /\ \A s \in Sessions :
         /\ DOMAIN session_state[s] \subseteq {"selected_location"}
         /\ pc[s] \in {"idle", "load", "init", "selector", "button", "filter",
                       "map", "kpi", "line", "bar", "table"}
         /\ run[s].outcome \in {"none", "running", "complete", "error"}

Init ==
    /\ file \in SharedFiles
    /\ cache = << >>
    /\ sessions = Sessions
    /\ session_state = [s \in Sessions |-> [k \in {} |-> AllLocations]]
    /\ pc = [s \in Sessions |-> "idle"]
    /\ run = [s \in Sessions |-> BlankPage]

\* one session, any file of Files
InitOne ==
    /\ file \in Files
    /\ cache = << >>
    /\ sessions = {"s1"}
    /\ session_state = [s \in Sessions |-> [k \in {} |-> AllLocations]]
    /\ pc = [s \in Sessions |-> "idle"]
    /\ run = [s \in Sessions |-> BlankPage]

\* one session, any well-formed file
InitData ==
    /\ file \in DataFiles
    /\ cache = << >>
    /\ sessions = {"s1"}
    /\ session_state = [s \in Sessions |-> [k \in {} |-> AllLocations]]
    /\ pc = [s \in Sessions |-> "idle"]
    /\ run = [s \in Sessions |-> BlankPage]

selected_location(s) == session_state[s].selected_location

Has(df, cols) == cols \subseteq df.cols

\* an exception ends the run where it is; what was rendered stays on the page
Raise(s, where) ==
    /\ pc' = [pc EXCEPT ![s] = "idle"]
    /\ run' = [run EXCEPT ![s].outcome = "error", ![s].failed_at = where]

\* the file is replaced on disk while the process runs
ChangeFile ==
    /\ file' \in SharedFiles \ {file}
    /\ UNCHANGED <<cache, sessions, session_state, pc, run>>

\* the page is run again without a click (a first visit, a manual rerun)
Rerun(s) ==
    /\ pc[s] = "idle"
    /\ pc' = [pc EXCEPT ![s] = "load"]
    /\ run' = [run EXCEPT ![s] = NewRun(NoClick)]
    /\ UNCHANGED <<file, cache, sessions, session_state>>

\* the user clicks a selector button that is on the page
Click(s, loc) ==
    /\ pc[s] = "idle"
    /\ \E k \in 1..Len(run[s].buttons) : run[s].buttons[k].label = loc
    /\ pc' = [pc EXCEPT ![s] = "load"]
    /\ run' = [run EXCEPT ![s] = NewRun(loc)]
    /\ UNCHANGED <<file, cache, sessions, session_state>>

\* load_data() without its cache: every run reads the file
LoadUncached(s) ==
    /\ pc[s] = "load"
    /\ IF load_raises(file)
          THEN /\ pc' = [pc EXCEPT ![s] = "idle"]
               /\ run' = [run EXCEPT ![s].fileRead = TRUE, ![s].outcome = "error",
                                     ![s].failed_at = "load"]
               /\ UNCHANGED cache
          ELSE /\ cache' = <<load_data(file)>>
               /\ run' = [run EXCEPT ![s].fileRead = TRUE, ![s].df = cache']
               /\ pc' = [pc EXCEPT ![s] = "init"]
    /\ UNCHANGED <<file, sessions, session_state>>

\* df = load_data(), under @st.cache_data
Load(s) ==
    /\ pc[s] = "load"
    /\ IF cache # << >>
          THEN /\ run' = [run EXCEPT ![s].df = cache]
               /\ pc' = [pc EXCEPT ![s] = "init"]
               /\ UNCHANGED cache
          ELSE IF load_raises(file)
          THEN /\ pc' = [pc EXCEPT ![s] = "idle"]
               /\ run' = [run EXCEPT ![s].fileRead = TRUE, ![s].outcome = "error",
                                     ![s].failed_at = "load"]
               /\ UNCHANGED cache
          ELSE /\ cache' = <<load_data(file)>>
               /\ run' = [run EXCEPT ![s].fileRead = TRUE, ![s].df = cache']
               /\ pc' = [pc EXCEPT ![s] = "init"]
    /\ UNCHANGED <<file, sessions, session_state>>

\* the initialisation without its test: every run resets the selection
InitStateAlways(s) ==
    /\ pc[s] = "init"
    /\ session_state' = [session_state EXCEPT ![s] = [selected_location |-> AllLocations]]
    /\ pc' = [pc EXCEPT ![s] = "selector"]
    /\ UNCHANGED <<file, cache, sessions, run>>

\* if 'selected_location' not in st.session_state: ...
InitState(s) ==
    /\ pc[s] = "init"
    /\ session_state' =
         IF "selected_location" \notin DOMAIN session_state[s]
            THEN [session_state EXCEPT ![s] = [selected_location |-> AllLocations]]
            ELSE session_state
    /\ pc' = [pc EXCEPT ![s] = "selector"]
    /\ UNCHANGED <<file, cache, sessions, run>>

\* location_list = ['All Locations'] + list(df['Location_Name'].unique())
Selector(s) ==
    /\ pc[s] = "selector"
    /\ IF Has(run[s].df[1], {"Location_Name"})
          THEN /\ pc' = [pc EXCEPT ![s] = "button"]
               /\ run' = [run EXCEPT ![s].i = 1]
          ELSE Raise(s, "selector")
    /\ UNCHANGED <<file, cache, sessions, session_state>>

\* one turn of: for loc in location_list
Button(s) ==
    /\ pc[s] = "button"
    /\ LET list == location_list(run[s].df[1])
           loc == list[run[s].i]
           is_active == (loc = selected_location(s))
           button_type == IF is_active THEN "primary" ELSE "secondary"
           shown == Append(run[s].buttons, [label |-> loc, type |-> button_type])
       IN  IF run[s].clicked = loc
              THEN \* st.session_state.selected_location = loc; st.rerun()
                   /\ session_state' = [session_state EXCEPT
                                          ![s] = [selected_location |-> loc]]
                   /\ run' = [run EXCEPT ![s] = NewRun(NoClick)]
                   /\ pc' = [pc EXCEPT ![s] = "load"]
              ELSE /\ run' = [run EXCEPT ![s].buttons = shown, ![s].i = @ + 1]
                   /\ pc' = [pc EXCEPT ![s] =
                               IF run[s].i = Len(list) THEN "filter" ELSE "button"]
                   /\ UNCHANGED session_state
    /\ UNCHANGED <<file, cache, sessions>>

\* the filter without df.copy() and on the cached object itself: the shared
\* table is narrowed in place
FilterInPlace(s) ==
    /\ pc[s] = "filter"
    /\ cache' = <<filter(run[s].df[1], selected_location(s))>>
    /\ run' = [run EXCEPT
                 ![s].filtered_by = <<selected_location(s)>>,
                 ![s].df = cache',
                 ![s].df_filtered = cache']
    /\ pc' = [pc EXCEPT ![s] = "map"]
    /\ UNCHANGED <<file, sessions, session_state>>

\* df_filtered = df.copy(), narrowed to the selected location
Filter(s) ==
    /\ pc[s] = "filter"
    /\ run' = [run EXCEPT
                 ![s].filtered_by = <<selected_location(s)>>,
                 ![s].df_filtered = <<filter(run[s].df[1], selected_location(s))>>]
    /\ pc' = [pc EXCEPT ![s] = "map"]
    /\ UNCHANGED <<file, cache, sessions, session_state>>

\* a section without its test for the empty table
SectionUnguarded(s, name, needs, next) ==
    /\ pc[s] = name
    /\ IF Has(run[s].df_filtered[1], needs)
          THEN /\ run' = [run EXCEPT ![s].sections[name] = "chart"]
               /\ pc' = [pc EXCEPT ![s] = next]
          ELSE Raise(s, name)
    /\ UNCHANGED <<file, cache, sessions, session_state>>

\* a section that draws from the columns `needs`, or warns when there is no row
Section(s, name, needs, next) ==
    /\ pc[s] = name
    /\ IF run[s].df_filtered[1].rows = << >>
          THEN /\ run' = [run EXCEPT ![s].sections[name] = "warning"]
               /\ pc' = [pc EXCEPT ![s] = next]
          ELSE IF Has(run[s].df_filtered[1], needs)
          THEN /\ run' = [run EXCEPT ![s].sections[name] = "chart"]
               /\ pc' = [pc EXCEPT ![s] = next]
          ELSE Raise(s, name)
    /\ UNCHANGED <<file, cache, sessions, session_state>>

\* RIGHT: MAP
Map(s) == Section(s, "map", {"Latitude", "Longitude", "Status", "Location_Name"}, "kpi")

\* C. POPULATE KPIs
Kpi(s) ==
    /\ pc[s] = "kpi"
    /\ LET t == run[s].df_filtered[1]
           k == computeKPIs(t)
       IN  IF t.rows # << >> /\ ~Has(t, {"Pod20", "Status"})
              THEN Raise(s, "kpi")
              ELSE /\ run' = [run EXCEPT
                                ![s].kpi = <<k>>,
                                ![s].cards = <<kpi1(k.avg_temp), kpi2(k.max_temp),
                                               kpi3(k.total_breaches)>>]
                   /\ pc' = [pc EXCEPT ![s] = "line"]
    /\ UNCHANGED <<file, cache, sessions, session_state>>

\* 1. Line Graph (Time Trend)
LineChart(s) == Section(s, "line", {"DateTime", "Pod20"}, "bar")

\* 2. Bar Graph (Location Comparison)
BarChart(s) == Section(s, "bar", {"Location_Name", "Pod20"}, "table")

\* E. BOTTOM SECTION: TABLE, and the footer: the run is complete
Table(s) ==
    /\ pc[s] = "table"
    /\ LET t == run[s].df_filtered[1]
       IN  IF t.rows # << >> /\ ~Has(t, {"DateTime", "Location_Name", "Pod20", "Status"})
              THEN Raise(s, "table")
              ELSE /\ run' = [run EXCEPT
                                ![s].sections["table"] =
                                    IF t.rows = << >> THEN "warning" ELSE "chart",
                                ![s].outcome = "complete"]
                   /\ pc' = [pc EXCEPT ![s] = "idle"]
    /\ UNCHANGED <<file, cache, sessions, session_state>>

\* one statement of session s's run
Render(s) ==
    \/ Load(s)
    \/ InitState(s)
    \/ Selector(s)
    \/ Button(s)
    \/ Filter(s)
    \/ Map(s)
    \/ Kpi(s)
    \/ LineChart(s)
    \/ BarChart(s)
    \/ Table(s)

\* the same with the file left as it is
NextFixed ==
    \/ \E s \in sessions : Rerun(s)
    \/ \E s \in sessions : \E loc \in Stages \cup {AllLocations} : Click(s, loc)
    \/ \E s \in sessions : Load(s)
    \/ \E s \in sessions : InitState(s)
    \/ \E s \in sessions : Selector(s)
    \/ \E s \in sessions : Button(s)
    \/ \E s \in sessions : Filter(s)
    \/ \E s \in sessions : Map(s)
    \/ \E s \in sessions : Kpi(s)
    \/ \E s \in sessions : LineChart(s)
    \/ \E s \in sessions : BarChart(s)
    \/ \E s \in sessions : Table(s)

Next ==
    \/ ChangeFile
    \/ NextFixed

Spec == Init /\ [][Next]_vars

SpecData == InitData /\ [][NextFixed]_vars

\* A run that has begun goes on to its end: the script runner executes the
\* script without waiting on anything.  Nothing obliges the user to act.
SpecOne == InitOne /\ [][NextFixed]_vars /\ \A s \in Sessions : WF_vars(Render(s))

-----------------------------------------------------------------------------
(* Properties of the data path: load, filter, KPIs, cards (SpecData) *)

RECURSIVE SumOver(_, _)
\* the sum of column Pod20 over the rows at the positions in idx
SumOver(rows, idx) ==
    IF idx = {} THEN 0
    ELSE LET i == CHOOSE j \in idx : TRUE
         IN  rows[i].Pod20 + SumOver(rows, idx \ {i})

\* the k-th smallest member of a set of positions
Kth(idx, k) == CHOOSE i \in idx : Cardinality({j \in idx : j <= i}) = k

\* C1: the cards of every filtered table, the empty one included, are
\* classified by the fixed limit: the average card is safe iff the average is
\* at most -60, the maximum card is safe iff the maximum is at most -60 (the
\* value -60 itself is safe), the breach card is safe iff no row is a
\* WARNING; an empty table gives danger, danger, safe.
CardsFollowLimit ==
    \A s \in sessions :
        run[s].cards # << >> =>
            LET k == run[s].kpi[1]
                c == run[s].cards
                rows == run[s].df_filtered[1].rows
            IN  /\ \A n \in 1..3 : c[n].status \in {"safe", "danger"}
                /\ (c[1].status = "safe") <=> (k.avg_temp.num + 60 * k.avg_temp.den <= 0)
                /\ (c[2].status = "safe") <=> (k.max_temp.num + 60 * k.max_temp.den <= 0)
                /\ (c[3].status = "safe") <=> (k.total_breaches = 0)
                /\ rows = << >> =>
                     <<c[1].status, c[2].status, c[3].status>> = <<"danger", "danger", "safe">>

\* a table whose maximum is exactly the limit has been classified
CardsAtLimit ==
    \E s \in sessions :
        /\ run[s].cards # << >>
        /\ run[s].kpi[1].max_temp = [num |-> -60, den |-> 1]
        /\ run[s].kpi[1].avg_temp.num < -60 * run[s].kpi[1].avg_temp.den
        /\ run[s].kpi[1].total_breaches > 0

\* C2: the KPIs of an empty filtered table are (0, 0, 0); otherwise the
\* average is the sum of Pod20 over the filtered rows divided by their
\* number, the maximum is a Pod20 of the table that no row exceeds, and the
\* breach count is the number of rows whose Status is WARNING.
KpisAreMeanMaxCount ==
    \A s \in sessions :
        run[s].kpi # << >> =>
            LET k == run[s].kpi[1]
                rows == run[s].df_filtered[1].rows
                idx == 1..Len(rows)
            IN  IF rows = << >>
                   THEN /\ k.avg_temp = [num |-> 0, den |-> 1]
                        /\ k.max_temp = [num |-> 0, den |-> 1]
                        /\ k.total_breaches = 0
                   ELSE /\ k.avg_temp.den > 0
                        /\ k.avg_temp.num * Len(rows) = SumOver(rows, idx) * k.avg_temp.den
                        /\ k.max_temp.den = 1
                        /\ \E i \in idx : rows[i].Pod20 = k.max_temp.num
                        /\ \A i \in idx : rows[i].Pod20 <= k.max_temp.num
                        /\ k.total_breaches =
                             Cardinality({i \in idx : rows[i].Status = "WARNING"})

\* the KPIs of three rows with a fractional mean, two temperatures and a breach
KpisOfThreeRows ==
    \E s \in sessions :
        /\ run[s].kpi # << >>
        /\ Len(run[s].df_filtered[1].rows) = 3
        /\ run[s].kpi[1].avg_temp = [num |-> -190, den |-> 3]
        /\ run[s].kpi[1].max_temp.num = -50
        /\ run[s].kpi[1].total_breaches = 1

\* what the filter of table t by selection sel has to return
FilterRight(t, sel, f) ==
    LET keep == {i \in 1..Len(t.rows) :
                   sel = "All Locations" \/ t.rows[i].Location_Name = sel}
        drop == {i \in 1..Len(t.rows) : t.rows[i].Location_Name # sel}
    IN  /\ f.cols = t.cols
        /\ Len(f.rows) = Cardinality(keep)
        /\ \A k \in 1..Len(f.rows) : f.rows[k] = t.rows[Kth(keep, k)]
        /\ sel = "All Locations" => f = t
        /\ sel # "All Locations" =>
             /\ \A k \in 1..Len(f.rows) : f.rows[k].Location_Name = sel
             /\ Len(f.rows) + Cardinality(drop) = Len(t.rows)

\* C3: for every loaded table and every selection, present in the table or
\* not, the filter returns in table order exactly the rows whose
\* Location_Name is the selection, or every row for "All Locations"; and the
\* table a run filtered is that of the selection it read.
FilterSelectsLocation ==
    \A s \in sessions :
        run[s].df # << >> =>
            /\ \A sel \in Stages \cup {"All Locations", "Depot"} :
                 FilterRight(run[s].df[1], sel, filter(run[s].df[1], sel))
            /\ run[s].df_filtered # << >> =>
                 FilterRight(run[s].df[1], run[s].filtered_by[1], run[s].df_filtered[1])

\* a run has filtered a three-row table down to its first and last rows
FilterKeptTwoOfThree ==
    \E s \in sessions :
        /\ run[s].df_filtered # << >>
        /\ run[s].filtered_by[1] = "Factory"
        /\ Len(run[s].df[1].rows) = 3
        /\ run[s].df_filtered[1].rows = <<run[s].df[1].rows[1], run[s].df[1].rows[3]>>
        /\ run[s].df[1].rows[1] # run[s].df[1].rows[3]

\* the source line behind row k of the loaded table, were every tenth kept
SourceOf(k) == file.rows[10 * (k - 1) + 1]

\* C4 as stated: ceil(N/10) rows, the source lines 0, 10, 20, ... in order,
\* every column value as it is in the file.
LoadKeepsRowsUnchanged ==
    cache # << >> =>
        /\ Len(cache[1].rows) = CeilDiv(Len(file.rows), 10)
        /\ \A k \in 1..Len(cache[1].rows) : cache[1].rows[k] = SourceOf(k)

\* C4 amended: ceil(N/10) rows, the source lines 0, 10, 20, ... in order,
\* every column value as it is in the file except DateTime, which is the
\* instant the line's text names.
LoadKeepsEveryTenth ==
    cache # << >> =>
        /\ Len(cache[1].rows) = CeilDiv(Len(file.rows), 10)
        /\ cache[1].cols = file.cols
        /\ \A k \in 1..Len(cache[1].rows) :
             /\ \A c \in Columns \ {"DateTime"} : cache[1].rows[k][c] = SourceOf(k)[c]
             /\ cache[1].rows[k].DateTime = [ts |-> SourceOf(k).DateTime.minute]

\* a file of 21 lines has been loaded as 3 rows
LoadedTwentyOne ==
    /\ cache # << >>
    /\ Len(file.rows) = 21
    /\ Len(cache[1].rows) = 3

-----------------------------------------------------------------------------
(* Properties of the sessions (Spec, SpecOne) *)

\* st.session_state.selected_location in ss: << >> while the key is absent
Selected(ss, s) ==
    IF "selected_location" \in DOMAIN ss[s] THEN <<ss[s].selected_location>> ELSE << >>

\* C5: the key is absent until the first run that reaches the initialisation,
\* which sets it to "All Locations" before any selector is rendered; from
\* then on it stays present and its value changes only in the step of the
\* button loop that handles a click on a control, to that control's
\* location; no other step, the initialisation check of later runs included,
\* changes or resets it.
SelectionChangesOnlyOnClick ==
    /\ [](\A s \in Sessions :
            Selected(session_state, s) = << >> =>
                /\ run[s].buttons = << >>
                /\ run[s].clicked = NoClick
                /\ pc[s] \in {"idle", "load", "init"})
    /\ [][\A s \in Sessions :
            LET before == Selected(session_state, s)
                after == Selected(session_state', s)
            IN  /\ (before = << >> /\ after # << >>) =>
                     (after = <<"All Locations">> /\ pc[s] = "init")
                /\ before # << >> => after # << >>
                /\ (before # << >> /\ after # before) =>
                     /\ pc[s] = "button"
                     /\ run[s].clicked = after[1]
                     /\ location_list(run[s].df[1])[run[s].i] = after[1]
         ]_vars

\* a run that no click triggered has passed the initialisation check with a
\* selection other than the default, and has completed
RerunKeptSelection ==
    \E s \in sessions :
        /\ run[s].clicked = NoClick
        /\ run[s].outcome = "complete"
        /\ run[s].filtered_by = <<"Factory">>
        /\ Selected(session_state, s) = <<"Factory">>

\* the selector buttons of the page that are rendered as primary
ActiveButtons(s) ==
    {k \in 1..Len(run[s].buttons) : run[s].buttons[k].type = "primary"}

\* a completed render marks one control, that of the selection it filtered by
MarksItsSelection(s) ==
    \E k \in 1..Len(run[s].buttons) :
        /\ ActiveButtons(s) = {k}
        /\ run[s].filtered_by = <<run[s].buttons[k].label>>

\* C6 as stated: every completed render marks exactly one control as active,
\* the one of the selection its filter used; and a click on L is always
\* followed by a completed render in which L is active and the filter used L.
ClickIsRendered ==
    /\ [](\A s \in Sessions : run[s].outcome = "complete" => MarksItsSelection(s))
    /\ \A s \in Sessions : \A L \in Stages \cup {"All Locations"} :
         (pc[s] = "load" /\ run[s].clicked = L)
             ~> (/\ run[s].outcome = "complete"
                 /\ run[s].filtered_by = <<L>>
                 /\ MarksItsSelection(s))

\* the half of C6 about completed renders
CompleteRenderMarksSelection ==
    \A s \in Sessions : run[s].outcome = "complete" => MarksItsSelection(s)

EmptyFiltered(s) ==
    /\ run[s].df_filtered # << >>
    /\ run[s].df_filtered[1].rows = << >>

\* the sections a run at statement p has passed
Passed(p) ==
    CASE p = "kpi" -> {"map"}
      [] p = "line" -> {"map"}
      [] p = "bar" -> {"map", "line"}
      [] p = "table" -> {"map", "line", "bar"}
      [] OTHER -> {}

\* C7: a run whose filtered table is empty raises nowhere, shows in each of
\* the map, the line chart, the bar chart and the table the warning in place
\* of the chart, and runs on to completion with all four warnings shown.
EmptyTableShowsPlaceholders ==
    /\ [](\A s \in Sessions :
            EmptyFiltered(s) =>
                /\ run[s].outcome # "error"
                /\ \A x \in Sections : run[s].sections[x] \in {"none", "warning"}
                /\ \A x \in Passed(pc[s]) : run[s].sections[x] = "warning"
                /\ run[s].outcome = "complete" =>
                     \A x \in Sections : run[s].sections[x] = "warning")
    /\ \A s \in Sessions :
         EmptyFiltered(s) ~> (EmptyFiltered(s) /\ run[s].outcome = "complete")

\* a run on an empty table, one that lacks a column besides, has completed
EmptyRunCompleted ==
    \E s \in sessions :
        /\ EmptyFiltered(s)
        /\ run[s].outcome = "complete"
        /\ run[s].df[1].cols # Columns
        /\ run[s].kpi # << >>

\* the file cannot be loaded as the six-column table
BadSource ==
    \/ ~file.exists
    \/ file.cols # Columns
    \/ \E i \in 1..Len(file.rows) :
         "DateTime" \in file.cols /\ file.rows[i].DateTime.fmt = "bad"

\* C8 as stated: on a file that is missing, unreadable or lacks one of the
\* six columns, every run fails in load(), and no selector, card, map, chart
\* or table is rendered.
SchemaFailsInLoad ==
    BadSource =>
        \A s \in sessions :
            /\ run[s].outcome = "error" => run[s].failed_at = "load"
            /\ run[s].buttons = << >>
            /\ run[s].cards = << >>
            /\ \A x \in Sections : run[s].sections[x] = "none"

\* session s took a step
Stepped(s) == pc'[s] # pc[s] \/ run'[s] # run[s] \/ session_state'[s] # session_state[s]

\* C9: a step of one session leaves the file and the loaded table as they
\* are (the load that first fills the cache aside), leaves every other
\* session's state, its selected_location included, as it is, and its filter
\* writes df_filtered only: df and the shared table stay whole.
SessionsAreIsolated ==
    [][\A s \in Sessions :
         Stepped(s) =>
             /\ file' = file
             /\ cache # << >> => cache' = cache
             /\ cache = << >> /\ cache' # << >> => pc[s] = "load"
             /\ \A t \in Sessions \ {s} :
                  /\ session_state'[t] = session_state[t]
                  /\ run'[t] = run[t]
                  /\ pc'[t] = pc[t]
             /\ pc[s] = "filter" =>
                  /\ run'[s].df = run[s].df
                  /\ run'[s].df_filtered # << >>
                  /\ session_state' = session_state
      ]_vars

\* two sessions have completed renders of different locations of one table
TwoSessionsTwoLocations ==
    \E s \in sessions : \E t \in sessions :
        /\ run[s].outcome = "complete" /\ run[t].outcome = "complete"
        /\ run[s].filtered_by = <<"Factory">>
        /\ run[t].filtered_by = <<"Airport">>
        /\ run[s].df = cache /\ run[t].df = cache
        /\ Len(run[s].df_filtered[1].rows) < Len(cache[1].rows)

\* C10: once load_data() has returned a table, that table stays the cached
\* one, no run reads the file again, and every run's df is the cached table,
\* whatever the file on disk has become.
LoadIsCached ==
    /\ [](\A s \in Sessions : run[s].df # << >> => run[s].df = cache)
    /\ [][/\ cache # << >> => cache' = cache
          /\ \A s \in Sessions :
               (run'[s].fileRead /\ ~run[s].fileRead) => cache = << >>
         ]_vars

\* a run was served from the cache while the file on disk would load as
\* another table
ServedFromCache ==
    \E s \in sessions :
        /\ run[s].df # << >>
        /\ ~run[s].fileRead
        /\ ~load_raises(file)
        /\ load_data(file) # cache[1]

====
